---- MODULE Spec2Model ----
(***************************************************************************)
(* Model of egui-editable-combobox: the per-frame protocol of              *)
(* EditableComboBox::show (src/src/lib.rs) over the Value / ValueOption     *)
(* implementations of src/src/value.rs, instantiated as in                 *)
(* src/examples/app.rs: CustomValue<ParseDisplayValue<Continent>> bound to  *)
(* the candidates  Continent::iter() ++ [CustomOption::Custom].            *)
(*                                                                         *)
(* Strings are sequences of one-character strings.  Source indices and     *)
(* filtered indices are 0-based as in the Rust code; the TLA+ sequences    *)
(* that hold the candidates and the filtered list are 1-based, so entry i  *)
(* of the code is element i + 1 of the sequence.                           *)
(***************************************************************************)
EXTENDS Integers, Sequences, FiniteSets

VARIABLES
    value,      \* the bound value (&mut V), owned by the host
    textBuf,    \* memory entry Ids::TextBuf : Option<String>
    cursorMem,  \* memory entry Ids::CursorPos : Option<CursorPos>
    focused,    \* toolkit: the text field held focus at the end of the last frame
    scroll,     \* toolkit: first row in the viewport of the popup's scroll area
    frame       \* what the last call of show read, computed and returned

vars == <<value, textBuf, cursorMem, focused, scroll, frame>>

-----------------------------------------------------------------------------
(* Bounds *)

\* rows of the popup that fit into the scroll area's viewport
VisibleRows == 2

-----------------------------------------------------------------------------
(* Strings *)

Alphabet == {"A", "a", "b"}

\* Option<T>: None is <<>>, Some(x) is <<x>>
None == <<>>
Some(x) == <<x>>

\* the texts the user types into the field
Texts == {<<>>, <<"a">>, <<"b">>, <<"a", "b">>, <<"A", "b">>, <<"b", "a">>}

LowerChar(ch) == IF ch = "A" THEN "a" ELSE ch

to_lowercase(s) == [i \in 1..Len(s) |-> LowerChar(s[i])]

\* str::contains: the pattern occurs as a contiguous substring
contains(full, input) ==
    \E i \in 0..(Len(full) - Len(input)) :
        SubSeq(full, i + 1, i + Len(input)) = input

-----------------------------------------------------------------------------
(* The example's enum and its strum Display names (scaled down) *)

Names == << <<"A", "b">>, <<"a">>, <<"b", "b">> >>

Continent == 1..Len(Names)

\* strum::Display
to_string(c) == Names[c]

-----------------------------------------------------------------------------
(* Values and options *)

\* CustomValue<ParseDisplayValue<Continent>>
ValueOf(c) == [tag |-> "Value", v |-> c, s |-> <<>>]
CustomOf(t) == [tag |-> "Custom", v |-> 0, s |-> t]

Values == {ValueOf(c) : c \in Continent} \cup {CustomOf(t) : t \in Texts}

\* CustomOption<ParseDisplayValue<Continent>>
OptValue(c) == [tag |-> "Value", v |-> c]
OptCustom == [tag |-> "Custom", v |-> 0]

AllOptions == {OptValue(c) : c \in Continent} \cup {OptCustom}

\* the candidates the host passes to show, in iteration order
Candidates == [i \in 1..(Len(Names) + 1) |->
                 IF i <= Len(Names) THEN OptValue(i) ELSE OptCustom]

\* Value::to_editable for ParseDisplayValue<T>
PD_to_editable(c) == to_string(c)

\* Value::to_editable for CustomValue<V>
to_editable(val) ==
    IF val.tag = "Value" THEN PD_to_editable(val.v) ELSE val.s

\* FilterResult::from_case_insensitive_substring
from_case_insensitive_substring(full, input) ==
    IF full = input
    THEN "Exact"
    ELSE IF contains(to_lowercase(full), to_lowercase(input))
         THEN "Partial"
         ELSE "None"

\* impl ValueOption<String> for String (and for &str)
Str_filter_by_text(self, text) == from_case_insensitive_substring(self, text)
Str_into_value(self, text) == self
Str_equals_value(self, val, text) == self = val

\* ParseDisplayValue::filter_by_text
PD_filter_by_text(c, text) == from_case_insensitive_substring(to_string(c), text)

\* FilterState
FilterState(n, e) == [prev_matches |-> n, had_exact |-> e]

\* CustomOption::filter_by_text
filter_by_text(opt, text, state) ==
    IF opt.tag = "Value"
    THEN PD_filter_by_text(opt.v, text)
    ELSE IF state.had_exact
         THEN "None"
         ELSE IF state.prev_matches > 0 THEN "Partial" ELSE "Exact"

\* into_value that drops the text of a custom entry
into_value_NoText(opt, text) ==
    IF opt.tag = "Value" THEN ValueOf(opt.v) ELSE CustomOf(<<>>)

\* CustomOption::into_value (ParseDisplayValue::into_value returns self)
into_value(opt, text) ==
    IF opt.tag = "Value" THEN ValueOf(opt.v) ELSE CustomOf(text)

\* ParseDisplayValue::equals_value
PD_equals_value(c, d) == c = d

\* equals_value that compares a custom entry with the value's text projection
\* of a real option instead of the typed text
equals_value_NoCustom(opt, val, text) ==
    IF opt.tag = "Value" /\ val.tag = "Value"
    THEN PD_equals_value(opt.v, val.v)
    ELSE FALSE

\* CustomOption::equals_value
equals_value(opt, val, text) ==
    IF opt.tag = "Value" /\ val.tag = "Value"
    THEN PD_equals_value(opt.v, val.v)
    ELSE IF opt.tag = "Custom" /\ val.tag = "Custom"
         THEN text = val.s
         ELSE FALSE

-----------------------------------------------------------------------------
(* show_options, lines 105-129: the filter pass *)

DisplayedOption(i, opt, eq) == [source_index |-> i, option |-> opt, equals |-> eq]

\* FilterStep that forgets to set had_exact (line 125)
FilterStep_NoHadExact(acc, i, option, selection, text, gained) ==
    LET equals == equals_value(option, selection, text)
        state == FilterState(Len(acc.filtered), acc.had_exact)
        filter_result == filter_by_text(option, text, state)
    IN [filtered |->
            IF filter_result \in {"Partial", "Exact"}
            THEN Append(acc.filtered, DisplayedOption(i, option, equals))
            ELSE acc.filtered,
        default_cursor_pos |->
            IF gained /\ equals THEN Some(i) ELSE acc.default_cursor_pos,
        had_exact |-> acc.had_exact,
        states |-> Append(acc.states, state),
        results |-> Append(acc.results, filter_result)]

\* FilterStep that pushes every candidate, whatever its classification
FilterStep_KeepNone(acc, i, option, selection, text, gained) ==
    LET equals == equals_value(option, selection, text)
        state == FilterState(Len(acc.filtered), acc.had_exact)
        filter_result == filter_by_text(option, text, state)
    IN [filtered |-> Append(acc.filtered, DisplayedOption(i, option, equals)),
        default_cursor_pos |->
            IF gained /\ equals THEN Some(i) ELSE acc.default_cursor_pos,
        had_exact |-> acc.had_exact \/ filter_result = "Exact",
        states |-> Append(acc.states, state),
        results |-> Append(acc.results, filter_result)]

\* what one iteration of the loop does to the locals, for source index i
FilterStep(acc, i, option, selection, text, gained) ==
    LET equals == equals_value(option, selection, text)
        state == FilterState(Len(acc.filtered), acc.had_exact)
        filter_result == filter_by_text(option, text, state)
    IN [filtered |->
            IF filter_result \in {"Partial", "Exact"}
            THEN Append(acc.filtered, DisplayedOption(i, option, equals))
            ELSE acc.filtered,
        default_cursor_pos |->
            IF gained /\ equals THEN Some(i) ELSE acc.default_cursor_pos,
        had_exact |-> acc.had_exact \/ filter_result = "Exact",
        states |-> Append(acc.states, state),
        results |-> Append(acc.results, filter_result)]

RECURSIVE FilterLoop(_, _, _, _, _, _)
FilterLoop(acc, n, options, selection, text, gained) ==
    IF n >= Len(options)
    THEN acc
    ELSE FilterLoop(FilterStep(acc, n, options[n + 1], selection, text, gained),
                    n + 1, options, selection, text, gained)

FilterPass(options, selection, text, gained) ==
    FilterLoop([filtered |-> <<>>, default_cursor_pos |-> None, had_exact |-> FALSE,
                states |-> <<>>, results |-> <<>>],
               0, options, selection, text, gained)

-----------------------------------------------------------------------------
(* slice::partition_point, a binary search *)

\* the two predicates the code searches with
PredLt(d, k) == d.source_index < k
PredLe(d, k) == d.source_index <= k

RECURSIVE BinarySearch(_, _, _, _, _)
BinarySearch(displayed, k, strict, base, size) ==
    LET Pred(j) == IF strict THEN PredLt(displayed[j + 1], k)
                             ELSE PredLe(displayed[j + 1], k)
    IN IF size > 1
       THEN LET half == size \div 2
                mid == base + half
            IN BinarySearch(displayed, k, strict,
                            IF Pred(mid) THEN mid ELSE base, size - half)
       ELSE IF Pred(base) THEN base + 1 ELSE base

\* partition_point(|d| d.source_index < k)
partition_point_lt(displayed, k) ==
    IF Len(displayed) = 0 THEN 0
    ELSE BinarySearch(displayed, k, TRUE, 0, Len(displayed))

\* partition_point(|d| d.source_index <= k)
partition_point_le(displayed, k) ==
    IF Len(displayed) = 0 THEN 0
    ELSE BinarySearch(displayed, k, FALSE, 0, Len(displayed))

-----------------------------------------------------------------------------
(* move_cursor_pos *)

MotionKeys == {"Up", "Down", "Home", "End"}

\* the sets of motion keys pressed in one frame
KeySets == {{}, MotionKeys} \cup {{k} : k \in MotionKeys}

\* find_map over [Up, Down, Home, End]: the first pressed key wins
FindMotion(keys) ==
    IF "Up" \in keys THEN "Up"
    ELSE IF "Down" \in keys THEN "Down"
    ELSE IF "Home" \in keys THEN "Home"
    ELSE IF "End" \in keys THEN "End"
    ELSE "NoMotion"

first(displayed) == displayed[1]
last(displayed) == displayed[Len(displayed)]

MotionUp(cursor, displayed) ==
    LET pp == partition_point_lt(displayed, cursor)
    IN IF pp >= 1 /\ pp - 1 < Len(displayed)
       THEN displayed[pp].source_index
       ELSE IF Len(displayed) > 0 THEN last(displayed).source_index ELSE cursor

MotionDown(cursor, displayed) ==
    LET pp == partition_point_le(displayed, cursor)
    IN IF pp < Len(displayed)
       THEN displayed[pp + 1].source_index
       ELSE IF Len(displayed) > 0 THEN first(displayed).source_index ELSE cursor

MotionHome(cursor, displayed) ==
    IF Len(displayed) > 0 THEN first(displayed).source_index ELSE cursor

\* End that leaves the cursor where it is
MotionEnd_Stay(cursor, displayed) == cursor

MotionEnd(cursor, displayed) ==
    IF Len(displayed) > 0 THEN last(displayed).source_index ELSE cursor

\* the cursor's source index after the motion of this frame
move_cursor_pos(motion, cursor, displayed) ==
    CASE motion = "Home" -> MotionHome(cursor, displayed)
      [] motion = "End" -> MotionEnd(cursor, displayed)
      [] motion = "Up" -> MotionUp(cursor, displayed)
      [] motion = "Down" -> MotionDown(cursor, displayed)
      [] OTHER -> cursor

-----------------------------------------------------------------------------
(* show_options, lines 131-149: cursor resolution *)

unwrap_or(opt, default) == IF opt = None THEN default ELSE opt[1]

\* load_cursor_pos().or(default_cursor_pos).unwrap_or(0): the stored cursor
\* taking precedence over the selected candidate
InitialCursor_LoadedFirst(default_cursor_pos, loaded) ==
    IF loaded # None
    THEN loaded[1]
    ELSE unwrap_or(default_cursor_pos, 0)

\* default_cursor_pos.or_else(load_cursor_pos).unwrap_or(0)
InitialCursor(default_cursor_pos, loaded) ==
    IF default_cursor_pos # None
    THEN default_cursor_pos[1]
    ELSE unwrap_or(loaded, 0)

\* CursorFilteredIndex searching with <= instead of <
CursorFilteredIndex_Le(filtered, cursor) ==
    LET pp == partition_point_le(filtered, cursor)
    IN IF pp >= Len(filtered) /\ Len(filtered) >= 1
       THEN Len(filtered) - 1
       ELSE pp

\* lines 143-149
CursorFilteredIndex(filtered, cursor) ==
    LET pp == partition_point_lt(filtered, cursor)
    IN IF pp >= Len(filtered) /\ Len(filtered) >= 1
       THEN Len(filtered) - 1
       ELSE pp

-----------------------------------------------------------------------------
(* show_options, lines 159-195: the rows the scroll area renders *)

\* ScrollArea::show_rows hands the closure the rows inside the viewport
RowRange(start, total) ==
    [start |-> start,
     end |-> IF start + VisibleRows < total THEN start + VisibleRows ELSE total]

\* scroll offsets the scroll area allows for a list of total rows
ScrollStarts(total) ==
    0..(IF total > VisibleRows THEN total - VisibleRows ELSE 0)

\* the scroll area clamps the offset it kept to the list it is given
ClampScroll(offset, total) ==
    IF offset \in ScrollStarts(total) THEN offset
    ELSE IF total > VisibleRows THEN total - VisibleRows ELSE 0

NoClick == -1

\* a test that commits the cursor row without Enter
Selects_CursorRow(filtered_index, cursor_filtered_index, click, enter) ==
    click = filtered_index \/ cursor_filtered_index = filtered_index

\* the test of lines 185-187 for the row at filtered_index
Selects(filtered_index, cursor_filtered_index, click, enter) ==
    click = filtered_index \/ (cursor_filtered_index = filtered_index /\ enter)

\* the for loop of lines 170-192 from filtered_index on
RECURSIVE RowLoop(_, _, _, _, _, _, _, _)
RowLoop(acc, filtered_index, range, filtered, cursor_filtered_index, click, enter, text) ==
    IF filtered_index >= range.end
    THEN acc
    ELSE RowLoop(
            IF Selects(filtered_index, cursor_filtered_index, click, enter)
            THEN [selection |-> into_value(filtered[filtered_index + 1].option, text),
                  changed |-> TRUE,
                  committed |-> Append(acc.committed, filtered_index)]
            ELSE acc,
            filtered_index + 1, range, filtered, cursor_filtered_index, click, enter, text)

\* show_options as a whole
show_options(selection, options, text, gained, loaded_cursor, motion, enter, click, start) ==
    LET pass == FilterPass(options, selection, text, gained)
        cursor0 == InitialCursor(pass.default_cursor_pos, loaded_cursor)
        cursor_pos == move_cursor_pos(motion, cursor0, pass.filtered)
        cursor_filtered_index == CursorFilteredIndex(pass.filtered, cursor_pos)
        range == RowRange(start, Len(pass.filtered))
        rows == RowLoop([selection |-> selection, changed |-> FALSE, committed |-> <<>>],
                        range.start, range, pass.filtered, cursor_filtered_index,
                        click, enter, text)
    IN [text |-> text,
        pass |-> pass,
        cursor0 |-> cursor0,
        cursor_pos |-> cursor_pos,
        cursor_filtered_index |-> cursor_filtered_index,
        range |-> range,
        selection |-> rows.selection,
        changed |-> rows.changed,
        committed |-> rows.committed]

-----------------------------------------------------------------------------
(* show, lines 61-91 *)

\* load_text_buf: the stored buffer, or the value's text when there is none
load_text_buf(mem, val) == IF mem = None THEN to_editable(val) ELSE mem[1]

\* load_cursor_pos
load_cursor_pos(mem) == mem

\* store_cursor_pos: the persisted CursorPos after line 139
store_cursor_pos(mem, cursor_pos) == Some(cursor_pos)

\* a forget_popup_state that leaves the persisted CursorPos in place
forget_popup_state_Keep(mem) == mem

\* forget_popup_state: the persisted CursorPos is removed
forget_popup_state(mem) == None

\* TextEdit::singleline(&mut text).show(ui): only a field that holds the focus
\* during the frame takes the user's typing
TextEdit(text, typed, has, lost) == IF has \/ lost THEN typed ELSE text

\* the response TextEdit returns is marked changed when the typing changed
\* the text
TextEditChanged(text, edited) == edited # text

ResponseChanged_NoMark(text_changed, popup, options_changed) == text_changed

\* lines 80-83 and 90: the changed flag of the response show returns
ResponseChanged(text_changed, popup, options_changed) ==
    text_changed \/ (popup /\ options_changed)

\* ReconcileText without the reset of a drifted buffer (lines 69-73)
ReconcileText_NoReset(text, hint, has, lost, gained) ==
    IF ~has /\ ~lost THEN text ELSE IF gained THEN <<>> ELSE text

\* ReconcileText without the clear on focus gain (lines 74-77)
ReconcileText_NoClear(text, hint, has, lost, gained) ==
    IF ~has /\ ~lost THEN (IF text # hint THEN hint ELSE text) ELSE text

\* ReconcileText that resets the buffer already in the lost-focus frame
ReconcileText_ResetOnLost(text, hint, has, lost, gained) ==
    IF ~has
    THEN IF text # hint THEN hint ELSE text
    ELSE IF gained THEN <<>> ELSE text

\* lines 65-77: the buffer after the idle check and the focus-gain clear
ReconcileText(text, hint, has, lost, gained) ==
    IF ~has /\ ~lost
    THEN IF text # hint THEN hint ELSE text
    ELSE IF gained THEN <<>> ELSE text

\* line 79: the popup is shown in this frame
PopupShown(has, lost) == has \/ lost

NoFrame == [kind |-> "none"]

\* One call of show, lines 61-91, for the inputs of this frame: whether the
\* toolkit lets the field hold the focus now, the text typed, the motion keys
\* and Enter pressed, the row clicked and the popup's scroll offset.
ShowFrame(now, typed, keys, enter, click, start) ==
    LET hint == to_editable(value)
        has == now
        gained == now /\ ~focused
        lost == ~now /\ focused
        loaded == load_text_buf(textBuf, value)
        edited == TextEdit(loaded, typed, has, lost)
        text_changed == TextEditChanged(loaded, edited)
        text == ReconcileText(edited, hint, has, lost, gained)
        motion == FindMotion(keys)
        loaded_cursor == load_cursor_pos(cursorMem)
        popup == PopupShown(has, lost)
        so == show_options(value, Candidates, text, gained, loaded_cursor,
                           motion, enter, click, start)
    IN /\ frame = NoFrame
       /\ value' = IF popup THEN so.selection ELSE value
       /\ cursorMem' = IF popup
                       THEN store_cursor_pos(cursorMem, so.cursor_pos)
                       ELSE forget_popup_state(cursorMem)
       /\ textBuf' = Some(text)
       /\ focused' = now
       /\ scroll' = IF popup THEN start ELSE scroll
       /\ frame' = [kind |-> "show",
                    has |-> has, gained |-> gained, lost |-> lost,
                    value0 |-> value, hint |-> hint,
                    edited |-> edited, text_changed |-> text_changed,
                    text |-> text,
                    motion |-> motion, enter |-> enter, click |-> click,
                    loaded_cursor |-> loaded_cursor,
                    popup |-> popup,
                    so |-> IF popup THEN so ELSE <<>>,
                    changed |-> ResponseChanged(text_changed, popup, so.changed)]

\* the number of rows the popup has for each text (the classification of a
\* candidate does not depend on the bound value); the scroll offsets and the
\* rows on screen, the ones the user can click, depend on it
RowCount == [t \in Texts |->
                Len(FilterPass(Candidates, ValueOf(1), t, FALSE).filtered)]

RowsFor(text) == RowCount[text]

\* A frame in which the field neither holds nor loses the focus: there is no
\* popup to scroll or click and the field takes no typing.
ShowIdle ==
    /\ ~focused
    /\ \E enter \in BOOLEAN :
        ShowFrame(FALSE, <<>>, {}, enter, NoClick, 0)

\* A frame in which the field gains the focus: the popup was not on screen
\* in the frame before, so no row can be clicked or scrolled to.
ShowGained ==
    /\ ~focused
    /\ \E typed \in Texts, keys \in KeySets, enter \in BOOLEAN :
        ShowFrame(TRUE, typed, keys, enter, NoClick,
                  ClampScroll(scroll, RowsFor(<<>>)))

\* A frame in which the field keeps the focus (now) or loses it (~now): the
\* popup was on screen, the user may have scrolled it and clicked a row.
ShowFocused ==
    /\ focused
    /\ \E now \in BOOLEAN, typed \in Texts, keys \in KeySets, enter \in BOOLEAN :
        \E start \in ScrollStarts(RowsFor(typed)) :
            \E click \in {NoClick} \cup
                         (start..(RowRange(start, RowsFor(typed)).end - 1)) :
                ShowFrame(now, typed, keys, enter, click, start)

Show == ShowIdle \/ ShowGained \/ ShowFocused

\* The host reads the response show returned (resp.changed()) and the frame
\* ends.
EndFrame ==
    /\ frame # NoFrame
    /\ frame' = NoFrame
    /\ UNCHANGED <<value, textBuf, cursorMem, focused, scroll>>

\* The host overwrites the bound value between two frames.
HostSetValue ==
    /\ frame = NoFrame
    /\ \E v \in Values \ {value} : value' = v
    /\ UNCHANGED <<textBuf, cursorMem, focused, scroll, frame>>

Init ==
    /\ value \in Values
    /\ textBuf = None
    /\ cursorMem = None
    /\ focused = FALSE
    /\ scroll = 0
    /\ frame = NoFrame

Next == Show \/ EndFrame \/ HostSetValue

Spec == Init /\ [][Next]_vars

-----------------------------------------------------------------------------
(* Shorthands over the last frame *)

Shown == frame.kind = "show"
Active == Shown /\ frame.popup
Idle == Shown /\ ~frame.popup
Filtered == frame.so.pass.filtered

TypeOK ==
    /\ value \in Values
    /\ textBuf = None \/ Len(textBuf) = 1
    /\ cursorMem = None \/ cursorMem[1] \in 0..(Len(Candidates) - 1)
    /\ focused \in BOOLEAN
    /\ scroll \in 0..Len(Candidates)

-----------------------------------------------------------------------------
(* Shorthands for the properties *)

Pass == frame.so.pass
Results == Pass.results
CursorRow == frame.so.cursor_filtered_index
Committed == frame.so.committed

\* source indices of the real options and of the custom pseudo-option
RealIndices == 0..(Len(Candidates) - 2)
CustomIndex == Len(Candidates) - 1

Matched(r) == r \in {"Partial", "Exact"}

SeqRange(q) == {q[i] : i \in 1..Len(q)}

SetMin(S) == CHOOSE x \in S : \A y \in S : x <= y

\* the option of the row at filtered index r
RowOption(r) == Filtered[r + 1].option

-----------------------------------------------------------------------------
(* C1 *)

\* C1: at the end of every show call in which the field neither holds focus
\* nor lost it this frame, the persisted text buffer equals
\* to_editable(bound value), whatever the buffer held at the start.
C1_IdleBuffer ==
    Idle => textBuf = Some(to_editable(value))

\* an idle frame that found a drifted buffer and reset it
C1_Witness ==
    /\ Idle
    /\ frame.edited # frame.hint
    /\ textBuf = Some(to_editable(value))

-----------------------------------------------------------------------------
(* C2 *)

\* C2: after every show call in which the field reports gained-focus the
\* persisted buffer is the empty string, whatever it held before and whatever
\* was typed in that frame, and the filter pass of the frame ran against the
\* empty text.
C2_FocusGainClears ==
    (Shown /\ frame.gained) =>
        /\ textBuf = Some(<<>>)
        /\ frame.popup
        /\ frame.so.text = <<>>
        /\ \A i \in RealIndices :
               Results[i + 1] = from_case_insensitive_substring(to_string(i + 1), <<>>)

\* a gained-focus frame whose text field returned a non-empty text
C2_Witness ==
    /\ Shown /\ frame.gained
    /\ frame.edited # <<>>
    /\ textBuf = Some(<<>>)

-----------------------------------------------------------------------------
(* C3 *)

\* C3: in every show call in which the field holds focus or just lost it, a
\* clicked row is committed, and if Enter is pressed and the filtered list is
\* non-empty the row at the cursor's display position is committed, whatever
\* rows the list renders; the bound value is into_value of a committed row.
C3_SelectionCommitRule ==
    Active =>
        /\ frame.click # NoClick => frame.click \in SeqRange(Committed)
        /\ (frame.enter /\ Len(Filtered) > 0) => CursorRow \in SeqRange(Committed)
        /\ Committed # <<>> =>
               \E r \in SeqRange(Committed) : value = into_value(RowOption(r), frame.text)

-----------------------------------------------------------------------------
(* C4 *)

\* the classification the claim states: equality and containment both
\* case-insensitive
C4_Classify(full, t) ==
    IF to_lowercase(full) = to_lowercase(t) THEN "Exact"
    ELSE IF contains(to_lowercase(full), to_lowercase(t)) THEN "Partial"
    ELSE "None"

\* C4: for every candidate c of the plain-text and parse/display option types
\* and every text t, filter_by_text is Exact iff c's text equals t
\* case-insensitively, Partial iff it does not equal t but contains it
\* case-insensitively, None otherwise.
C4_FilterCorrectness ==
    Active =>
        /\ \A i \in RealIndices :
               Results[i + 1] = C4_Classify(to_string(i + 1), frame.text)
        /\ \A c \in Continent :
               Str_filter_by_text(to_string(c), frame.text)
                   = C4_Classify(to_string(c), frame.text)

-----------------------------------------------------------------------------
(* C5 *)

\* C5: in one filter pass over candidates ending in the custom pseudo-option,
\* the FilterState handed to each candidate has prev_matches = number of
\* preceding candidates classified Partial or Exact and had_exact = some
\* preceding candidate was Exact; the custom pseudo-option is None if a
\* preceding candidate was Exact, else Partial if one was Partial, else Exact.
C5_CustomPrecedence ==
    Active =>
        /\ Len(Results) = Len(Candidates) /\ Len(Pass.states) = Len(Candidates)
        /\ \A i \in 1..Len(Candidates) :
              /\ Pass.states[i].prev_matches =
                     Cardinality({j \in 1..(i - 1) : Matched(Results[j])})
              /\ Pass.states[i].had_exact =
                     (\E j \in 1..(i - 1) : Results[j] = "Exact")
        /\ Results[CustomIndex + 1] =
              IF \E j \in RealIndices : Results[j + 1] = "Exact" THEN "None"
              ELSE IF \E j \in RealIndices : Results[j + 1] = "Partial" THEN "Partial"
              ELSE "Exact"

\* a pass in which an exact match hides the custom pseudo-option
C5_Witness ==
    /\ Active
    /\ Results[CustomIndex + 1] = "None"
    /\ Pass.states[CustomIndex + 1].had_exact
    /\ Pass.states[CustomIndex + 1].prev_matches >= 1

-----------------------------------------------------------------------------
(* C6 *)

NoRealMatch == \A i \in RealIndices : Results[i + 1] = "None"

\* C6: if the text matches no real option, the filtered list is exactly the
\* custom pseudo-option, the cursor's display position is that row for every
\* persisted cursor, and Enter sets the bound value to Custom(text) and marks
\* the response changed.
C6_FreeFormEntry ==
    (Active /\ NoRealMatch) =>
        /\ Len(Filtered) = 1
        /\ Filtered[1].source_index = CustomIndex
        /\ Filtered[1].option = OptCustom
        /\ CursorRow = 0
        /\ frame.enter => value = CustomOf(frame.text) /\ frame.changed

\* Enter on a text that matches nothing, with a cursor persisted on a real
\* option, replaces a real value by the custom text
C6_Witness ==
    /\ Active /\ NoRealMatch
    /\ frame.enter
    /\ frame.click = NoClick
    /\ frame.loaded_cursor # None
    /\ frame.loaded_cursor # Some(CustomIndex)
    /\ frame.value0.tag = "Value"
    /\ frame.text # <<>>
    /\ value = CustomOf(frame.text)

-----------------------------------------------------------------------------
(* C7 *)

\* C7: for every built-in option o and every text t,
\* equals_value(o, into_value(o, t), t) holds: right after committing o
\* against t the committed row is flagged equal to the bound value.
C7_RoundTripCommit ==
    Active =>
        /\ Committed # <<>> =>
               equals_value(RowOption(Committed[Len(Committed)]), value, frame.text)
        /\ \A o \in AllOptions :
               equals_value(o, into_value(o, frame.text), frame.text)
        /\ \A c \in Continent :
               Str_equals_value(to_string(c),
                                Str_into_value(to_string(c), frame.text), frame.text)

\* the custom pseudo-option was committed against a non-empty text
C7_Witness ==
    /\ Active /\ Committed # <<>>
    /\ RowOption(Committed[Len(Committed)]) = OptCustom
    /\ frame.text # <<>>
    /\ value # frame.value0

-----------------------------------------------------------------------------
(* C8 *)

\* filtered positions (1-based) whose source index is at least k
AtOrAfter(k) == {i \in 1..Len(Filtered) : Filtered[i].source_index >= k}

\* C8: for every non-empty filtered list and cursor source index k the
\* highlighted display position is the first filtered entry with source index
\* >= k, or the last entry when there is none; so a cursor whose candidate is
\* in the filtered list highlights exactly that entry.
C8_CursorDisplayMapping ==
    (Active /\ Len(Filtered) > 0) =>
        LET k == frame.so.cursor_pos
        IN /\ CursorRow + 1 =
                  IF AtOrAfter(k) # {} THEN SetMin(AtOrAfter(k)) ELSE Len(Filtered)
           /\ (\E i \in 1..Len(Filtered) : Filtered[i].source_index = k) =>
                  Filtered[CursorRow + 1].source_index = k

\* the cursor's candidate is filtered out and the highlight falls on its
\* nearest successor, which is not the first row
C8_Witness ==
    /\ Active /\ Len(Filtered) >= 2
    /\ \A i \in 1..Len(Filtered) : Filtered[i].source_index # frame.so.cursor_pos
    /\ CursorRow >= 1
    /\ Filtered[CursorRow + 1].source_index > frame.so.cursor_pos
    /\ Filtered[CursorRow].source_index < frame.so.cursor_pos

-----------------------------------------------------------------------------
(* C9 *)

\* display position of the cursor before the motion of this frame
RowBeforeMotion == CursorFilteredIndex(Filtered, frame.so.cursor0)

\* C9: with a non-empty filtered list, Up while the cursor's display position
\* is the first filtered entry sets the cursor to the last entry's source
\* index, and Down while it is the last entry sets the cursor to the first
\* entry's source index.
C9_Wraparound ==
    (Active /\ Len(Filtered) > 0) =>
        /\ (frame.motion = "Up" /\ RowBeforeMotion = 0) =>
               frame.so.cursor_pos = last(Filtered).source_index
        /\ (frame.motion = "Down" /\ RowBeforeMotion = Len(Filtered) - 1) =>
               frame.so.cursor_pos = first(Filtered).source_index

-----------------------------------------------------------------------------
(* C10 *)

\* source indices of the candidates that equal the bound value in this frame
EqualIndices ==
    {i \in 0..(Len(Candidates) - 1) :
        equals_value(Candidates[i + 1], frame.value0, frame.text)}

\* C10: the cursor used in a gained-focus frame before any key motion is
\* determined by the bound value alone: the source index of a candidate for
\* which equals_value holds, or 0 when there is none; never an index
\* persisted while the popup was open earlier.
C10_NoStaleCursor ==
    (Active /\ frame.gained) =>
        IF EqualIndices # {}
        THEN frame.so.cursor0 \in EqualIndices
        ELSE frame.so.cursor0 = 0

-----------------------------------------------------------------------------
\* C11: in every frame in which a row is committed, by a click or by Enter on
\* the cursor row, the response show returns is marked changed, also when the
\* committed value equals the value bound before the frame.
C11_ChangedOnCommit ==
    (Active /\ Committed # <<>>) => frame.changed

\* a commit that writes the value that was already bound, in a frame without
\* any typing
C11_Witness ==
    /\ Active
    /\ Committed # <<>>
    /\ value = frame.value0
    /\ ~frame.text_changed
    /\ frame.changed

-----------------------------------------------------------------------------
\* C12: the response show returns reports changed only in frames in which the
\* bound value was overwritten by a selection commit; a frame in which the
\* user only edits the text, with no click and no Enter commit, does not
\* report changed.
C12_ChangedMeansValueChanged ==
    (Shown /\ frame.changed) => (Active /\ Committed # <<>>)

-----------------------------------------------------------------------------
\* C13: for every non-empty filtered list and every cursor source index, also
\* one that is filtered out or lies past the last filtered entry, Up sets the
\* cursor to the source index of the filtered entry immediately preceding the
\* cursor's display position, or to the last entry's when the display position
\* is the first; with at least two filtered rows the highlighted row changes.
C13_UpMotion ==
    (Active /\ frame.motion = "Up" /\ Len(Filtered) > 0) =>
        /\ frame.so.cursor_pos =
              IF RowBeforeMotion = 0
              THEN Filtered[Len(Filtered)].source_index
              ELSE Filtered[RowBeforeMotion].source_index
        /\ Len(Filtered) >= 2 => CursorRow # RowBeforeMotion

-----------------------------------------------------------------------------
\* C14: for every non-empty filtered list and every cursor source index, Down
\* sets the cursor to the source index of the filtered entry immediately
\* following the cursor's display position, or to the first entry's when the
\* display position is the last, also when the cursor's candidate is filtered
\* out and the display position is its nearest successor; with at least two
\* filtered rows the highlighted row changes.
C14_DownMotion ==
    (Active /\ frame.motion = "Down" /\ Len(Filtered) > 0) =>
        /\ frame.so.cursor_pos =
              IF RowBeforeMotion = Len(Filtered) - 1
              THEN Filtered[1].source_index
              ELSE Filtered[RowBeforeMotion + 2].source_index
        /\ Len(Filtered) >= 2 => CursorRow # RowBeforeMotion

-----------------------------------------------------------------------------
EmptyFiltered == <<>>

\* the cursor's source index is the one of an entry of the filtered list
OnFilteredEntry(k) ==
    \E i \in 1..Len(Filtered) : Filtered[i].source_index = k

\* C15: with a non-empty filtered list Home sets the persisted cursor to the
\* first filtered entry's source index and End to the last entry's; with an
\* empty filtered list every motion leaves the cursor's source index
\* unchanged; after any applied motion on a non-empty list the cursor is the
\* source index of an entry of the current filtered list.
C15_HomeEnd ==
    Active =>
        /\ (frame.motion = "Home" /\ Len(Filtered) > 0) =>
              cursorMem = Some(Filtered[1].source_index)
        /\ (frame.motion = "End" /\ Len(Filtered) > 0) =>
              cursorMem = Some(Filtered[Len(Filtered)].source_index)
        /\ (frame.motion # "NoMotion" /\ Len(Filtered) > 0) =>
              /\ cursorMem = Some(frame.so.cursor_pos)
              /\ OnFilteredEntry(frame.so.cursor_pos)
        /\ Len(Filtered) = 0 => frame.so.cursor_pos = frame.so.cursor0
        /\ \A m \in MotionKeys :
              move_cursor_pos(m, frame.so.cursor0, EmptyFiltered)
                  = frame.so.cursor0

\* End moved a cursor that was filtered out to the last of several rows
C15_Witness ==
    /\ Active
    /\ frame.motion = "End"
    /\ Len(Filtered) >= 2
    /\ ~OnFilteredEntry(frame.so.cursor0)
    /\ cursorMem = Some(Filtered[Len(Filtered)].source_index)
    /\ cursorMem # Some(frame.so.cursor0)

-----------------------------------------------------------------------------
\* C16: in a gained-focus frame in which at least one supplied candidate
\* satisfies equals_value(candidate, bound value, text) and no motion key is
\* pressed, the cursor persisted at the end of the frame is the source index
\* of a candidate satisfying equals_value, whatever cursor was persisted
\* before, and the highlighted row is that candidate; the search covers all
\* supplied candidates.
C16_SeedOnOpen ==
    (Active /\ frame.gained /\ EqualIndices # {}
            /\ frame.motion = "NoMotion") =>
        /\ cursorMem # None
        /\ cursorMem[1] \in EqualIndices
        /\ CursorRow < Len(Filtered)
        /\ Filtered[CursorRow + 1].source_index = cursorMem[1]
        /\ Filtered[CursorRow + 1].option = Candidates[cursorMem[1] + 1]

\* the popup reopens over a cursor stored on another candidate
C16_Witness ==
    /\ Active
    /\ frame.gained
    /\ frame.motion = "NoMotion"
    /\ EqualIndices # {}
    /\ frame.loaded_cursor # None
    /\ frame.loaded_cursor[1] \notin EqualIndices
    /\ cursorMem # None
    /\ cursorMem[1] \in EqualIndices
    /\ cursorMem[1] > 0

-----------------------------------------------------------------------------
\* C17: every show call does exactly one of two things: when the field holds
\* the focus or just lost it, it runs the filter and cursor pass and leaves a
\* CursorPos persisted; otherwise it removes the persisted CursorPos, so that
\* after every idle frame no CursorPos exists. The text buffer is persisted
\* in both cases.
C17_CursorLifecycle ==
    Shown =>
        /\ frame.popup <=> (frame.has \/ frame.lost)
        /\ frame.popup => cursorMem = Some(frame.so.cursor_pos)
        /\ ~frame.popup => cursorMem = None
        /\ textBuf = Some(frame.text)

\* the idle frame after the popup closed removed the cursor it had stored
C17_Witness ==
    /\ Idle
    /\ frame.loaded_cursor # None
    /\ cursorMem = None
    /\ textBuf = Some(frame.hint)

-----------------------------------------------------------------------------
\* C18: a show call leaves the bound value unchanged unless a row is
\* committed, by a click on a rendered row or by Enter on the rendered cursor
\* row; the value is never written in an idle frame, even if Enter is pressed,
\* nor in a frame whose filtered list is empty, nor by text edits, focus
\* changes or cursor motions alone.
C18_ValueFrameCondition ==
    Shown =>
        /\ Idle => value = frame.value0
        /\ (Active /\ Len(Filtered) = 0) => value = frame.value0
        /\ (Active /\ frame.click = NoClick /\ ~frame.enter) =>
              value = frame.value0
        /\ value # frame.value0 =>
              /\ Active
              /\ \E r \in frame.so.range.start..(frame.so.range.end - 1) :
                    /\ r = frame.click \/ (frame.enter /\ r = CursorRow)
                    /\ value = into_value(Filtered[r + 1].option, frame.text)

\* the frame that loses the focus carries a text edit and a cursor motion
\* but no commit
C18_Witness ==
    /\ Active
    /\ frame.lost
    /\ frame.text_changed
    /\ frame.motion # "NoMotion"
    /\ frame.so.cursor_pos # frame.so.cursor0
    /\ Committed = <<>>
    /\ value = frame.value0

-----------------------------------------------------------------------------
\* C19: in every frame in which the field holds the focus without having just
\* gained it, or has just lost the focus, show persists exactly the text the
\* text field returned; it is not reset to to_editable(value), also when the
\* value was changed by the host or by a commit in that frame.
C19_TextPreserved ==
    (Active /\ ~frame.gained) =>
        /\ frame.text = frame.edited
        /\ textBuf = Some(frame.edited)

\* the frame that loses the focus commits a row and keeps the typed text,
\* which is the text of neither the old nor the new value
C19_Witness ==
    /\ Active
    /\ frame.lost
    /\ Committed # <<>>
    /\ value # frame.value0
    /\ frame.edited # frame.hint
    /\ frame.edited # to_editable(value)
    /\ textBuf = Some(frame.edited)

-----------------------------------------------------------------------------
\* C20: when a motion key and Enter are both pressed in the same frame, the
\* motion is applied and persisted first, and the row committed by Enter is
\* the row at the cursor's display position after the motion, computed
\* against the current frame's filtered list and buffer text.
C20_MotionPrecedesCommit ==
    (Active /\ frame.motion # "NoMotion" /\ frame.enter
            /\ frame.click = NoClick) =>
        /\ frame.so.cursor_pos =
              move_cursor_pos(frame.motion, frame.so.cursor0, Filtered)
        /\ cursorMem = Some(frame.so.cursor_pos)
        /\ CursorRow = CursorFilteredIndex(Filtered, frame.so.cursor_pos)
        /\ Committed = <<CursorRow>>
        /\ value = into_value(Filtered[CursorRow + 1].option, frame.text)

-----------------------------------------------------------------------------
\* the filtered indices of the entries that carry source index i
EntriesOf(i) == {j \in 1..Len(Filtered) : Filtered[j].source_index = i}

\* C21: after every filter pass the filtered list contains exactly the
\* candidates classified Partial or Exact, each once, in strictly increasing
\* source-index order, and each entry's equality flag is
\* equals_value(candidate, bound value, text) evaluated in that frame.
C21_FilteredListShape ==
    Active =>
        /\ Len(Results) = Len(Candidates)
        /\ \A i \in 0..(Len(Candidates) - 1) :
              /\ Results[i + 1] =
                    filter_by_text(Candidates[i + 1], frame.text,
                                   Pass.states[i + 1])
              /\ Cardinality(EntriesOf(i)) =
                    IF Matched(Results[i + 1]) THEN 1 ELSE 0
        /\ \A i \in RealIndices :
              Matched(PD_filter_by_text(Candidates[i + 1].v, frame.text))
                  <=> OnFilteredEntry(i)
        /\ \A j \in 1..Len(Filtered) :
              /\ Filtered[j].source_index \in 0..(Len(Candidates) - 1)
              /\ Filtered[j].option = Candidates[Filtered[j].source_index + 1]
              /\ Filtered[j].equals =
                    equals_value(Filtered[j].option, frame.value0, frame.text)
        /\ \A j \in 1..(Len(Filtered) - 1) :
              Filtered[j].source_index < Filtered[j + 1].source_index

\* a pass that drops a candidate in the middle of the list and keeps entries
\* with both values of the equality flag
C21_Witness ==
    /\ Active
    /\ Len(Filtered) >= 3
    /\ \E i \in RealIndices :
          /\ ~OnFilteredEntry(i)
          /\ OnFilteredEntry(i - 1)
          /\ OnFilteredEntry(i + 1)
    /\ \E j \in 1..Len(Filtered) : Filtered[j].equals
    /\ \E j \in 1..Len(Filtered) : ~Filtered[j].equals

====
